---- MODULE Spec2Model ----
(***************************************************************************)
(* The inference daemon of scripts/inference_server.py: a TCP listener     *)
(* that starts one daemon thread per accepted connection; every thread     *)
(* buffers bytes, cuts newline-delimited frames out of its buffer, parses  *)
(* them as JSON requests, calls the engine under one shared lock and       *)
(* writes one response per frame.                                          *)
(*                                                                         *)
(* A byte of the model is one lexeme of the wire text (a brace, a whole    *)
(* "key": value member, a scalar, a blank, the newline, an octet that is   *)
(* no UTF-8): the network never cuts inside a lexeme here, it cuts         *)
(* anywhere between them.                                                  *)
(***************************************************************************)
EXTENDS Integers, Sequences, FiniteSets, TLC

VARIABLES
    server,     \* main thread: "start", "listening", "bind_failed", "crashed", "shutdown"
    script,     \* per client: the byte stream it sends over its connection
    sock,       \* per client: "none" (not accepted), "open", "closed" (conn.close())
    peer,       \* per client: "open", "closed" (FIN sent), "reset" (RST)
    wire,       \* per client: bytes sent and not yet returned by conn.recv
    pc,         \* per handler thread: its position in handle_client
    buffer,     \* per handler: the local `buffer`
    req,        \* per handler: the arguments of the generate call in progress
    start,      \* per handler: `start_time` of the generate call in progress
    response,   \* per handler: the `response` about to be sent
    lock,       \* self.lock: 0 when free, else the handler that holds it
    now,        \* time.perf_counter(), in milliseconds
    out,        \* per client: the responses sendall has written, in order
    calls,      \* per handler: log of the engine calls it made
    frames,     \* per handler: the non-blank lines it cut out, in order
    exit,       \* per handler: why it left its loop
    splits,     \* per handler: some recv ended inside a frame
    entered,    \* per handler: the time its engine call in progress got the lock
    unread,     \* per client: responses written that the client has not read
    reads       \* per client: whether it reads its responses as they arrive

vars == <<server, script, sock, peer, wire, pc, buffer, req, start, response,
          lock, now, out, calls, frames, exit, splits, entered, unread, reads>>

----------------------------------------------------------------------------
(* Bounds of the model. *)

\* Connections the clients attempt under Spec.
NumConns == 2
\* Frames per stream under SpecFraming.
MaxFrames == 2
\* The clock stops advancing here.
MaxTime == 1

(* Program constants. *)
RECV_SIZE == 4096
DEFAULT_MAX_TOKENS == 50

\* Responses the buffers of a connection hold for a client that does not read
\* them; with that many unread, conn.sendall does not return.
SNDBUF == 1

----------------------------------------------------------------------------
(* Bytes. *)

NL == "\n"
SP == " "
\* An octet that cannot start a UTF-8 sequence.
BAD == "0xff"

Whitespace == {SP, NL}

\* Members of an object: "key": value.
Members == {"pA", "pB", "m7", "m0", "x"}
MemberKey(b) ==
    CASE b \in {"pA", "pB"} -> "prompt"
      [] b \in {"m7", "m0"} -> "max_tokens"
      [] OTHER -> "foo"
MemberValue(b) ==
    CASE b = "pA" -> "A"
      [] b = "pB" -> "B"
      [] b = "m7" -> 7
      [] b = "m0" -> 0
      [] OTHER -> "bar"

\* Scalars: three strings, a number, true, null.
PROMPT == <<"p", "r", "o", "m", "p", "t">>
Scalars == {"q", "e", "s", "n", "t", "z"}
ScalarValue(b) ==
    CASE b = "q" -> [type |-> "str", val |-> <<"a", " ">> \o PROMPT]
      [] b = "e" -> [type |-> "str", val |-> PROMPT]
      [] b = "s" -> [type |-> "str", val |-> <<"h", "i">>]
      [] b = "n" -> [type |-> "int", val |-> <<>>]
      [] b = "t" -> [type |-> "bool", val |-> <<>>]
      [] OTHER -> [type |-> "NoneType", val |-> <<>>]

----------------------------------------------------------------------------
(* bytes.split(b"\n", 1), bytes.strip(), bytes.decode("utf-8") *)

\* The first position of b in s at or after i, 0 when there is none.
IndexOf(s, b, i) ==
    IF \E j \in i..Len(s) : s[j] = b
    THEN CHOOSE j \in i..Len(s) : s[j] = b /\ \A k \in i..(j - 1) : s[k] # b
    ELSE 0

Contains(s, b) == IndexOf(s, b, 1) # 0

\* line, buffer = buffer.split(b"\n", 1)
SplitHead(s) == SubSeq(s, 1, IndexOf(s, NL, 1) - 1)
SplitRest(s) == SubSeq(s, IndexOf(s, NL, 1) + 1, Len(s))

LStrip(s) ==
    IF \A i \in DOMAIN s : s[i] \in Whitespace THEN <<>>
    ELSE SubSeq(s, CHOOSE i \in DOMAIN s :
                       s[i] \notin Whitespace /\ \A j \in 1..(i - 1) : s[j] \in Whitespace,
                Len(s))

RStrip(s) ==
    IF \A i \in DOMAIN s : s[i] \in Whitespace THEN <<>>
    ELSE SubSeq(s, 1, CHOOSE i \in DOMAIN s :
                          s[i] \notin Whitespace
                          /\ \A j \in (i + 1)..Len(s) : s[j] \in Whitespace)

\* Strip that strips nothing.
StripNothing(s) == s

Strip(s) == RStrip(LStrip(s))

\* line.decode("utf-8"): raises UnicodeDecodeError on an invalid octet.
Decode(bytes) ==
    IF Contains(bytes, BAD)
    THEN [ok |-> FALSE, exc |-> "UnicodeDecodeError",
          msg |-> "'utf-8' codec can't decode byte 0xff: invalid start byte"]
    ELSE [ok |-> TRUE, text |-> bytes]

----------------------------------------------------------------------------
(* json.loads *)

\* Whitespace between tokens is skipped.
DropBlanks(s) == SelectSeq(s, LAMBDA b : b \notin Whitespace)

\* The members of an object, left to right; a repeated key keeps the last.
ObjectOf(ms) ==
    LET last(k) == CHOOSE i \in DOMAIN ms :
                       /\ MemberKey(ms[i]) = k
                       /\ \A j \in (i + 1)..Len(ms) : MemberKey(ms[j]) # k
    IN  [k \in {MemberKey(ms[i]) : i \in DOMAIN ms} |-> MemberValue(ms[last(k)])]

JSONError(m) == [ok |-> FALSE, exc |-> "JSONDecodeError", msg |-> m]

\* The value of the tokens t, or the JSONDecodeError.
JSONValue(t) ==
    LET n == Len(t)
        inner == SubSeq(t, 2, n - 1)
    IN  IF n = 0 THEN JSONError("Expecting value")
        ELSE IF t[1] = "{" THEN
            IF n >= 2 /\ t[n] = "}" /\ \A i \in 1..Len(inner) : inner[i] \in Members
            THEN [ok |-> TRUE, value |-> [type |-> "dict", val |-> ObjectOf(inner)]]
            ELSE JSONError("Expecting property name enclosed in double quotes")
        ELSE IF t[1] = "[" THEN
            IF n >= 2 /\ t[n] = "]" /\ \A i \in 1..Len(inner) : inner[i] \in Scalars
            THEN [ok |-> TRUE,
                  value |-> [type |-> "list",
                             val |-> [i \in 1..Len(inner) |-> ScalarValue(inner[i])]]]
            ELSE JSONError("Expecting value")
        ELSE IF t[1] \in Scalars THEN
            IF n = 1 THEN [ok |-> TRUE, value |-> ScalarValue(t[1])]
            ELSE JSONError("Extra data")
        ELSE JSONError("Expecting value")

\* t is bound to the tokens of the text.
Loads(text) == CHOOSE v \in {JSONValue(t) : t \in {DropBlanks(Strip(text))}} : TRUE

----------------------------------------------------------------------------
(* The engine: self.tokenizer / self.model.generate.  Its text depends on    *)
(* the prompt and on max_new_tokens only (do_sample = False); it may raise.  *)

Engine(prompt, max_tokens) == <<prompt, max_tokens>>
EngineErrors == {"HIP out of memory"}

----------------------------------------------------------------------------
(* _process_request, up to its call of self.generate *)

IsPrefix(p, s) == Len(p) <= Len(s) /\ SubSeq(s, 1, Len(p)) = p

\* p in s, for two str
Substring(p, s) == \E i \in 0..Len(s) : IsPrefix(p, SubSeq(s, i + 1, Len(s)))

TypeError(m) == [kind |-> "raise", exc |-> "TypeError", msg |-> m]
Generate(p, m) == [kind |-> "generate", prompt |-> p, max_tokens |-> m]

\* GetMaxTokens as `request.get("max_tokens") or 50`.
GetMaxTokensOr(d) ==
    IF "max_tokens" \in DOMAIN d /\ d["max_tokens"] # 0
    THEN d["max_tokens"]
    ELSE DEFAULT_MAX_TOKENS

\* request.get("max_tokens", 50)
GetMaxTokens(d) ==
    IF "max_tokens" \in DOMAIN d THEN d["max_tokens"] ELSE DEFAULT_MAX_TOKENS

\* ProcessRequest without the test for the key: request["prompt"] raises.
ProcessRequestNoCheck(request) ==
    CASE request.type = "dict" ->
            IF "prompt" \notin DOMAIN request.val
            THEN [kind |-> "raise", exc |-> "KeyError", msg |-> "'prompt'"]
            ELSE Generate(request.val["prompt"], GetMaxTokens(request.val))
      [] request.type = "list" ->
            TypeError("list indices must be integers or slices, not str")
      [] request.type = "str" ->
            TypeError("string indices must be integers, not 'str'")
      [] OTHER ->
            TypeError("'" \o request.type \o "' object is not subscriptable")

ProcessRequest(request) ==
    CASE request.type = "dict" ->
            IF "prompt" \notin DOMAIN request.val
            THEN [kind |-> "return", response |-> [error |-> "Missing 'prompt' field"]]
            ELSE Generate(request.val["prompt"], GetMaxTokens(request.val))
      [] request.type = "list" ->
            IF ~ \E i \in DOMAIN request.val :
                    request.val[i] = [type |-> "str", val |-> PROMPT]
            THEN [kind |-> "return", response |-> [error |-> "Missing 'prompt' field"]]
            ELSE TypeError("list indices must be integers or slices, not str")
      [] request.type = "str" ->
            IF ~ Substring(PROMPT, request.val)
            THEN [kind |-> "return", response |-> [error |-> "Missing 'prompt' field"]]
            ELSE TypeError("string indices must be integers, not 'str'")
      [] OTHER ->
            TypeError("argument of type '" \o request.type \o "' is not iterable")

----------------------------------------------------------------------------
(* handle_client: the try / except around one frame *)

Respond(r) == [kind |-> "respond", response |-> r]

\* What follows json.loads without a try: every exception leaves handle_client.
AfterLoadsNoExcept(j) ==
    IF ~ j.ok THEN [kind |-> "raise", exc |-> j.exc, msg |-> j.msg]
    ELSE LET r == ProcessRequest(j.value) IN
         IF r.kind = "return" THEN Respond(r.response) ELSE r

\* What follows json.loads with `except json.JSONDecodeError` alone.
AfterLoadsJsonOnly(j) ==
    IF ~ j.ok THEN Respond([error |-> "Invalid JSON: " \o j.msg])
    ELSE LET r == ProcessRequest(j.value) IN
         IF r.kind = "return" THEN Respond(r.response) ELSE r

\* What follows json.loads, which returned or raised j.
AfterLoads(j) ==
    IF ~ j.ok THEN Respond([error |-> "Invalid JSON: " \o j.msg])
    ELSE LET r == ProcessRequest(j.value) IN
         CASE r.kind = "return" -> Respond(r.response)
           [] r.kind = "raise" -> Respond([error |-> r.msg])   \* except Exception
           [] OTHER -> r

\* HandleFrame without its try.
HandleFrameNoExcept(line) ==
    LET d == Decode(line) IN
    IF ~ d.ok THEN [kind |-> "raise", exc |-> d.exc, msg |-> d.msg]
    ELSE CHOOSE h \in {AfterLoadsNoExcept(j) : j \in {Loads(d.text)}} : TRUE

\* HandleFrame with `except json.JSONDecodeError` alone.
HandleFrameJsonOnly(line) ==
    LET d == Decode(line) IN
    IF ~ d.ok THEN [kind |-> "raise", exc |-> d.exc, msg |-> d.msg]
    ELSE CHOOSE h \in {AfterLoadsJsonOnly(j) : j \in {Loads(d.text)}} : TRUE

\* j is bound to the outcome of json.loads.
HandleFrame(line) ==
    LET d == Decode(line) IN
    IF ~ d.ok THEN Respond([error |-> d.msg])              \* except Exception
    ELSE CHOOSE h \in {AfterLoads(j) : j \in {Loads(d.text)}} : TRUE

----------------------------------------------------------------------------
(* The streams the clients send. *)

Frame(text) == text \o <<NL>>

ValidA == <<"{", "pA", "}">>
ValidB7 == <<"{", "pB", "m7", "}">>

\* Under SpecFraming: requests, a request without prompt, no UTF-8, blanks.
FramingTexts ==
    { ValidA, ValidB7, <<"{", "x", "}">>, <<BAD>>, <<SP>>, <<>> }

Tails == { <<>>, <<"{", "pB">> }

RECURSIVE FramesOf(_, _)
FramesOf(texts, n) ==
    IF n = 0 THEN {<<>>}
    ELSE {s \o Frame(f) : s \in FramesOf(texts, n - 1), f \in texts}

FramingStreams ==
    {s \o t : s \in UNION {FramesOf(FramingTexts, n) : n \in 0..MaxFrames}, t \in Tails}

\* Under SpecCodec: one frame of every kind, alone or followed by a request.
CodecTexts ==
    { ValidA, ValidB7,
      <<"{", "m0", "x", "pA", "}">>,      \* max_tokens 0 and an unknown field
      <<"{", "x", "}">>,                  \* an object without prompt
      <<"{", "pA">>,                      \* cut short: no JSON
      <<BAD>>,                            \* no UTF-8
      <<"[", "e", "]">>, <<"[", "q", "]">>,
      <<"q">>, <<"s">>, <<"n">>, <<"t">>, <<"z">>,
      <<SP>> }

CodecStreams ==
    {Frame(t) : t \in CodecTexts} \cup {Frame(t) \o Frame(ValidA) : t \in CodecTexts}

\* Under Spec the first client sends a stray newline and two requests, every
\* other client one request.
LongStream == <<NL>> \o Frame(ValidB7) \o Frame(ValidA)
ShortStream == Frame(ValidA)

----------------------------------------------------------------------------
(* Initial states. *)

NoRequest == [prompt |-> "", max_tokens |-> 0]
NoResponse == [none |-> TRUE]

\* The connection slots, and the clients that will connect.
Conns == 1..NumConns

InitOver(scripts, readers) ==
    /\ server = "start"
    /\ script \in scripts
    /\ reads \in readers
    /\ entered = [c \in Conns |-> 0]
    /\ unread = [c \in Conns |-> 0]
    /\ sock = [c \in Conns |-> "none"]
    /\ peer = [c \in Conns |-> "open"]
    /\ wire = [c \in Conns |-> <<>>]
    /\ pc = [c \in Conns |-> "idle"]
    /\ buffer = [c \in Conns |-> <<>>]
    /\ req = [c \in Conns |-> NoRequest]
    /\ start = [c \in Conns |-> 0]
    /\ response = [c \in Conns |-> NoResponse]
    /\ lock = 0
    /\ now = 0
    /\ out = [c \in Conns |-> <<>>]
    /\ calls = [c \in Conns |-> <<>>]
    /\ frames = [c \in Conns |-> <<>>]
    /\ exit = [c \in Conns |-> "none"]
    /\ splits = [c \in Conns |-> FALSE]

\* Every client reads its responses at once.
AllRead == {[c \in Conns |-> TRUE]}

Init == InitOver({[c \in Conns |-> IF c = 1 THEN LongStream ELSE ShortStream]}, AllRead)
InitFraming == InitOver([{1} -> FramingStreams], AllRead)
InitCodec == InitOver([{1} -> CodecStreams], AllRead)
InitFair ==
    InitOver({[c \in Conns |-> IF c = 1 THEN <<NL>> \o ShortStream ELSE ShortStream]},
             AllRead)
\* The first client pipelines its requests and reads no response.
InitStalled ==
    InitOver({[c \in Conns |-> IF c = 1 THEN LongStream ELSE ShortStream]},
             {[c \in Conns |-> c # 1]})

\* What the other clients send beside the first one: nothing, a request, or
\* a frame that is no UTF-8.
OtherStreams == { <<>>, ShortStream, Frame(<<BAD>>) }
InitPair ==
    InitOver({[c \in Conns |-> IF c = 1 THEN LongStream ELSE s] : s \in OtherStreams},
             AllRead)

Clients == DOMAIN script

\* The handlers are daemon threads: they run while the main thread does.
Alive == server = "listening"

----------------------------------------------------------------------------
(* serve *)

Bind ==
    /\ server = "start"
    /\ server' = "listening"
    /\ UNCHANGED <<script, sock, peer, wire, pc, buffer, req, start, response,
                   lock, now, out, calls, frames, exit, splits, entered, unread, reads>>

\* server.bind raises OSError: nothing catches it.
BindFail ==
    /\ server = "start"
    /\ server' = "bind_failed"
    /\ UNCHANGED <<script, sock, peer, wire, pc, buffer, req, start, response,
                   lock, now, out, calls, frames, exit, splits, entered, unread, reads>>

\* Accept in an accept loop that is entered although bind failed.
AcceptUnbound(c) ==
    /\ server \in {"listening", "bind_failed"}
    /\ c \in Clients
    /\ sock[c] = "none"
    /\ sock' = [sock EXCEPT ![c] = "open"]
    /\ wire' = [wire EXCEPT ![c] = script[c]]
    /\ pc' = [pc EXCEPT ![c] = "recv"]
    /\ UNCHANGED <<server, script, peer, buffer, req, start, response,
                   lock, now, out, calls, frames, exit, splits, entered, unread, reads>>

\* conn, addr = server.accept(); Thread(target = self.handle_client).start()
Accept(c) ==
    /\ server = "listening"
    /\ c \in Clients
    /\ sock[c] = "none"
    /\ sock' = [sock EXCEPT ![c] = "open"]
    /\ wire' = [wire EXCEPT ![c] = script[c]]
    /\ pc' = [pc EXCEPT ![c] = "recv"]
    /\ UNCHANGED <<server, script, peer, buffer, req, start, response,
                   lock, now, out, calls, frames, exit, splits, entered, unread, reads>>

\* The main thread ends: the interpreter exits and takes the daemon threads
\* (thread.daemon = True) with it, wherever they are; their sockets, their
\* locals and the lock go with the process.
ProcessExit(how) ==
    /\ server' = how
    /\ pc' = [c \in Conns |-> IF pc[c] \in {"idle", "done"} THEN pc[c] ELSE "killed"]
    /\ wire' = [c \in Conns |-> <<>>]
    /\ buffer' = [c \in Conns |-> <<>>]
    /\ req' = [c \in Conns |-> NoRequest]
    /\ start' = [c \in Conns |-> 0]
    /\ response' = [c \in Conns |-> NoResponse]
    /\ lock' = 0
    /\ entered' = [c \in Conns |-> 0]
    /\ UNCHANGED <<script, sock, peer, now, out, calls, frames, exit, splits, unread, reads>>

\* server.accept raises OSError: only KeyboardInterrupt is caught.
AcceptFail ==
    /\ server = "listening"
    /\ ProcessExit("crashed")

\* except KeyboardInterrupt: serve returns, main returns, the process ends.
Interrupt ==
    /\ server = "listening"
    /\ ProcessExit("shutdown")

----------------------------------------------------------------------------
(* handle_client *)

Min(a, b) == IF a < b THEN a ELSE b

\* Recv with `buffer = data` for `buffer += data`.
RecvOverwrite(c) ==
    /\ Alive /\ pc[c] = "recv"
    /\ peer[c] # "reset"
    /\ wire[c] # <<>>
    /\ \E k \in 1..Min(Len(wire[c]), RECV_SIZE) :
         LET data == SubSeq(wire[c], 1, k)
         IN  /\ buffer' = [buffer EXCEPT ![c] = data]
             /\ wire' = [wire EXCEPT ![c] = SubSeq(wire[c], k + 1, Len(wire[c]))]
             /\ splits' = [splits EXCEPT ![c] = @ \/ data[Len(data)] # NL]
    /\ pc' = [pc EXCEPT ![c] = "frames"]
    /\ UNCHANGED <<server, script, sock, peer, req, start, response,
                   lock, now, out, calls, frames, exit, entered, unread, reads>>

\* data = conn.recv(4096) returns some bytes; buffer += data
Recv(c) ==
    /\ Alive /\ pc[c] = "recv"
    /\ peer[c] # "reset"
    /\ wire[c] # <<>>
    /\ \E k \in 1..Min(Len(wire[c]), RECV_SIZE) :
         LET data == SubSeq(wire[c], 1, k)
             b == buffer[c] \o data
         IN  /\ buffer' = [buffer EXCEPT ![c] = b]
             /\ wire' = [wire EXCEPT ![c] = SubSeq(wire[c], k + 1, Len(wire[c]))]
             /\ splits' = [splits EXCEPT ![c] = @ \/ b[Len(b)] # NL]
    /\ pc' = [pc EXCEPT ![c] = "frames"]
    /\ UNCHANGED <<server, script, sock, peer, req, start, response,
                   lock, now, out, calls, frames, exit, entered, unread, reads>>

\* RecvEOF that takes what is left in the buffer for a last frame.
RecvEOFFlushes(c) ==
    /\ Alive /\ pc[c] = "recv"
    /\ peer[c] = "closed"
    /\ wire[c] = <<>>
    /\ buffer' = [buffer EXCEPT ![c] = IF @ # <<>> THEN @ \o <<NL>> ELSE @]
    /\ pc' = [pc EXCEPT ![c] = IF buffer[c] # <<>> THEN "frames" ELSE "finally"]
    /\ exit' = [exit EXCEPT ![c] = IF buffer[c] # <<>> THEN @ ELSE "eof"]
    /\ UNCHANGED <<server, script, sock, peer, wire, req, start, response,
                   lock, now, out, calls, frames, splits, entered, unread, reads>>

\* data = conn.recv(4096) returns b"": break
RecvEOF(c) ==
    /\ Alive /\ pc[c] = "recv"
    /\ peer[c] = "closed"
    /\ wire[c] = <<>>
    /\ pc' = [pc EXCEPT ![c] = "finally"]
    /\ exit' = [exit EXCEPT ![c] = "eof"]
    /\ UNCHANGED <<server, script, sock, peer, wire, buffer, req, start, response,
                   lock, now, out, calls, frames, splits, entered, unread, reads>>

\* conn.recv raises ConnectionResetError: except ConnectionResetError: pass
RecvReset(c) ==
    /\ Alive /\ pc[c] = "recv"
    /\ peer[c] = "reset"
    /\ pc' = [pc EXCEPT ![c] = "finally"]
    /\ exit' = [exit EXCEPT ![c] = "reset"]
    /\ UNCHANGED <<server, script, sock, peer, wire, buffer, req, start, response,
                   lock, now, out, calls, frames, splits, entered, unread, reads>>

\* while b"\n" in buffer: is false
NoFrame(c) ==
    /\ Alive /\ pc[c] = "frames"
    /\ ~ Contains(buffer[c], NL)
    /\ pc' = [pc EXCEPT ![c] = "recv"]
    /\ UNCHANGED <<server, script, sock, peer, wire, buffer, req, start, response,
                   lock, now, out, calls, frames, exit, splits, entered, unread, reads>>

\* if not line.strip(): continue
SkipBlank(c) ==
    /\ Alive /\ pc[c] = "frames"
    /\ Contains(buffer[c], NL)
    /\ Strip(SplitHead(buffer[c])) = <<>>
    /\ buffer' = [buffer EXCEPT ![c] = SplitRest(@)]
    /\ UNCHANGED <<server, script, sock, peer, wire, pc, req, start, response,
                   lock, now, out, calls, frames, exit, splits, entered, unread, reads>>

\* One frame, from the split to the response or to the entry of self.generate
\* (start_time is taken before the lock is asked for).
ProcessFrame(c) ==
    /\ Alive /\ pc[c] = "frames"
    /\ Contains(buffer[c], NL)
    /\ Strip(SplitHead(buffer[c])) # <<>>
    /\ \E line \in {SplitHead(buffer[c])} : \E r \in {HandleFrame(line)} :
           /\ buffer' = [buffer EXCEPT ![c] = SplitRest(@)]
           /\ frames' = [frames EXCEPT ![c] = Append(@, line)]
           /\ pc' = [pc EXCEPT ![c] =
                        CASE r.kind = "respond" -> "send"
                          [] r.kind = "generate" -> "waitlock"
                          [] OTHER -> "finally"]
           /\ response' = [response EXCEPT ![c] =
                        IF r.kind = "respond" THEN r.response ELSE @]
           /\ req' = [req EXCEPT ![c] =
                        IF r.kind = "generate"
                        THEN [prompt |-> r.prompt, max_tokens |-> r.max_tokens]
                        ELSE @]
           /\ start' = [start EXCEPT ![c] = IF r.kind = "generate" THEN now ELSE @]
           /\ exit' = [exit EXCEPT ![c] = IF r.kind = "raise" THEN "crash" ELSE @]
    /\ UNCHANGED <<server, script, sock, peer, wire, lock, now, out, calls, splits, entered, unread, reads>>

\* Acquire without the lock: the engine is entered at once.
AcquireNoLock(c) ==
    /\ Alive /\ pc[c] = "waitlock"
    /\ lock' = c
    /\ entered' = [entered EXCEPT ![c] = now]
    /\ pc' = [pc EXCEPT ![c] = "engine"]
    /\ calls' = [calls EXCEPT ![c] =
                    Append(@, [frame |-> Len(frames[c]), prompt |-> req[c].prompt,
                               max_tokens |-> req[c].max_tokens, outcome |-> "running"])]
    /\ UNCHANGED <<server, script, sock, peer, wire, buffer, req, start, response,
                   now, out, frames, exit, splits, unread, reads>>

\* Acquire that hands the call to a worker: the handler goes on with its
\* buffer while the call runs.
AcquireDetached(c) ==
    /\ Alive /\ pc[c] = "waitlock"
    /\ lock = 0
    /\ lock' = c
    /\ entered' = [entered EXCEPT ![c] = now]
    /\ pc' = [pc EXCEPT ![c] = "frames"]
    /\ calls' = [calls EXCEPT ![c] =
                    Append(@, [frame |-> Len(frames[c]), prompt |-> req[c].prompt,
                               max_tokens |-> req[c].max_tokens, outcome |-> "running"])]
    /\ UNCHANGED <<server, script, sock, peer, wire, buffer, req, start, response,
                   now, out, frames, exit, splits, unread, reads>>

\* with self.lock: entered
Acquire(c) ==
    /\ Alive /\ pc[c] = "waitlock"
    /\ lock = 0
    /\ lock' = c
    /\ entered' = [entered EXCEPT ![c] = now]
    /\ pc' = [pc EXCEPT ![c] = "engine"]
    /\ calls' = [calls EXCEPT ![c] =
                    Append(@, [frame |-> Len(frames[c]), prompt |-> req[c].prompt,
                               max_tokens |-> req[c].max_tokens, outcome |-> "running"])]
    /\ UNCHANGED <<server, script, sock, peer, wire, buffer, req, start, response,
                   now, out, frames, exit, splits, unread, reads>>

\* EngineReturn with the lock still held when generate returns.
EngineReturnKeepsLock(c) ==
    /\ Alive /\ pc[c] = "engine"
    /\ response' = [response EXCEPT ![c] =
                       [response |-> Engine(req[c].prompt, req[c].max_tokens),
                        inference_ms |-> now - start[c]]]
    /\ calls' = [calls EXCEPT ![c][Len(calls[c])].outcome = "returned"]
    /\ req' = [req EXCEPT ![c] = NoRequest]
    /\ start' = [start EXCEPT ![c] = 0]
    /\ entered' = [entered EXCEPT ![c] = 0]
    /\ pc' = [pc EXCEPT ![c] = "send"]
    /\ UNCHANGED <<server, script, sock, peer, wire, buffer, lock, now, out, frames,
                   exit, splits, unread, reads>>

\* EngineReturn with the request kept in an attribute of the server object: a
\* handler that entered generate meanwhile has overwritten it.
EngineReturnShared(c) ==
    /\ Alive /\ pc[c] = "engine"
    /\ lock' = 0
    /\ \E d \in {IF \E w \in Conns : pc[w] = "waitlock"
                 THEN CHOOSE w \in Conns : pc[w] = "waitlock" ELSE c} :
         response' = [response EXCEPT ![c] =
                         [response |-> Engine(req[d].prompt, req[d].max_tokens),
                          inference_ms |-> now - start[c]]]
    /\ calls' = [calls EXCEPT ![c][Len(calls[c])].outcome = "returned"]
    /\ req' = [req EXCEPT ![c] = NoRequest]
    /\ start' = [start EXCEPT ![c] = 0]
    /\ entered' = [entered EXCEPT ![c] = 0]
    /\ pc' = [pc EXCEPT ![c] = "send"]
    /\ UNCHANGED <<server, script, sock, peer, wire, buffer, now, out, frames,
                   exit, splits, unread, reads>>

\* The engine returns: the lock is released, inference_ms is taken, and
\* _process_request returns the success response.
EngineReturn(c) ==
    /\ Alive /\ pc[c] = "engine"
    /\ lock' = 0
    /\ response' = [response EXCEPT ![c] =
                       [response |-> Engine(req[c].prompt, req[c].max_tokens),
                        inference_ms |-> now - start[c]]]
    /\ calls' = [calls EXCEPT ![c][Len(calls[c])].outcome = "returned"]
    /\ req' = [req EXCEPT ![c] = NoRequest]
    /\ start' = [start EXCEPT ![c] = 0]
    /\ entered' = [entered EXCEPT ![c] = 0]
    /\ pc' = [pc EXCEPT ![c] = "send"]
    /\ UNCHANGED <<server, script, sock, peer, wire, buffer, now, out, frames,
                   exit, splits, unread, reads>>

\* EngineRaise with the lock taken by acquire() and released only on return.
EngineRaiseKeepsLock(c) ==
    /\ Alive /\ pc[c] = "engine"
    /\ \E e \in EngineErrors :
         /\ response' = [response EXCEPT ![c] = [error |-> e]]
         /\ calls' = [calls EXCEPT ![c][Len(calls[c])].outcome = e]
    /\ req' = [req EXCEPT ![c] = NoRequest]
    /\ start' = [start EXCEPT ![c] = 0]
    /\ entered' = [entered EXCEPT ![c] = 0]
    /\ pc' = [pc EXCEPT ![c] = "send"]
    /\ UNCHANGED <<server, script, sock, peer, wire, buffer, lock, now, out, frames,
                   exit, splits, unread, reads>>

\* The engine raises: the with statement releases the lock, and
\* _process_request returns {"error": str(e)}.
EngineRaise(c) ==
    /\ Alive /\ pc[c] = "engine"
    /\ \E e \in EngineErrors :
         /\ response' = [response EXCEPT ![c] = [error |-> e]]
         /\ calls' = [calls EXCEPT ![c][Len(calls[c])].outcome = e]
    /\ lock' = 0
    /\ req' = [req EXCEPT ![c] = NoRequest]
    /\ start' = [start EXCEPT ![c] = 0]
    /\ entered' = [entered EXCEPT ![c] = 0]
    /\ pc' = [pc EXCEPT ![c] = "send"]
    /\ UNCHANGED <<server, script, sock, peer, wire, buffer, now, out, frames,
                   exit, splits, unread, reads>>

\* SendOK without the write: the loop goes on to the next frame.
SendLost(c) ==
    /\ Alive /\ pc[c] = "send"
    /\ peer[c] # "reset"
    /\ response' = [response EXCEPT ![c] = NoResponse]
    /\ pc' = [pc EXCEPT ![c] = "frames"]
    /\ UNCHANGED <<server, script, sock, peer, wire, buffer, req, start,
                   lock, now, out, calls, frames, exit, splits, entered, unread, reads>>

\* SendOK on the socket of the next connection.
SendWrongConn(c) ==
    /\ Alive /\ pc[c] = "send"
    /\ peer[c] # "reset"
    /\ unread[c] < SNDBUF
    /\ unread' = [unread EXCEPT ![c] = IF reads[c] THEN @ ELSE @ + 1]
    /\ out' = [out EXCEPT ![(c % NumConns) + 1] = Append(@, response[c])]
    /\ response' = [response EXCEPT ![c] = NoResponse]
    /\ pc' = [pc EXCEPT ![c] = "frames"]
    /\ UNCHANGED <<server, script, sock, peer, wire, buffer, req, start,
                   lock, now, calls, frames, exit, splits, entered, reads>>

\* conn.sendall(response_bytes) returns: the socket is a blocking one, the
\* call returns once the buffers of the connection have taken the bytes.
SendOK(c) ==
    /\ Alive /\ pc[c] = "send"
    /\ peer[c] # "reset"
    /\ unread[c] < SNDBUF
    /\ unread' = [unread EXCEPT ![c] = IF reads[c] THEN @ ELSE @ + 1]
    /\ out' = [out EXCEPT ![c] = Append(@, response[c])]
    /\ response' = [response EXCEPT ![c] = NoResponse]
    /\ pc' = [pc EXCEPT ![c] = "frames"]
    /\ UNCHANGED <<server, script, sock, peer, wire, buffer, req, start,
                   lock, now, calls, frames, exit, splits, entered, reads>>

\* SendFail with conn.close() after the try statement, not in its finally.
SendFailNoFinally(c) ==
    /\ Alive /\ pc[c] = "send"
    /\ peer[c] # "open"
    /\ response' = [response EXCEPT ![c] = NoResponse]
    /\ pc' = [pc EXCEPT ![c] = "done"]
    /\ exit' = [exit EXCEPT ![c] = "senderr"]
    /\ UNCHANGED <<server, script, sock, peer, wire, buffer, req, start,
                   lock, now, out, calls, frames, splits, entered, unread, reads>>

\* conn.sendall raises (the peer is gone)
SendFail(c) ==
    /\ Alive /\ pc[c] = "send"
    /\ peer[c] # "open"
    /\ response' = [response EXCEPT ![c] = NoResponse]
    /\ pc' = [pc EXCEPT ![c] = "finally"]
    /\ exit' = [exit EXCEPT ![c] = "senderr"]
    /\ UNCHANGED <<server, script, sock, peer, wire, buffer, req, start,
                   lock, now, out, calls, frames, splits, entered, unread, reads>>

\* Close without the finally clause: the thread ends, the socket stays open.
CloseLeak(c) ==
    /\ Alive /\ pc[c] = "finally"
    /\ pc' = [pc EXCEPT ![c] = "done"]
    /\ UNCHANGED <<server, script, sock, peer, wire, buffer, req, start, response,
                   lock, now, out, calls, frames, exit, splits, entered, unread, reads>>

\* finally: conn.close()
Close(c) ==
    /\ Alive /\ pc[c] = "finally"
    /\ sock' = [sock EXCEPT ![c] = "closed"]
    /\ pc' = [pc EXCEPT ![c] = "done"]
    /\ UNCHANGED <<server, script, peer, wire, buffer, req, start, response,
                   lock, now, out, calls, frames, exit, splits, entered, unread, reads>>

----------------------------------------------------------------------------
(* The environment: the clients and the clock. *)

\* The client closes its side; what it sent is still delivered.
ClientClose(c) ==
    /\ sock[c] = "open" /\ peer[c] = "open"
    /\ peer' = [peer EXCEPT ![c] = "closed"]
    /\ UNCHANGED <<server, script, sock, wire, pc, buffer, req, start, response,
                   lock, now, out, calls, frames, exit, splits, entered, unread, reads>>

\* ClientReset when a reset cancelled the request of the connection.
ClientResetAborts(c) ==
    /\ sock[c] = "open" /\ peer[c] = "open"
    /\ peer' = [peer EXCEPT ![c] = "reset"]
    /\ wire' = [wire EXCEPT ![c] = <<>>]
    /\ pc' = [pc EXCEPT ![c] = IF @ \in {"waitlock", "engine"} THEN "finally" ELSE @]
    /\ lock' = IF lock = c THEN 0 ELSE lock
    /\ UNCHANGED <<server, script, sock, buffer, req, start, response,
                   now, out, calls, frames, exit, splits, entered, unread, reads>>

\* The connection is reset; what was not yet read is lost.
ClientReset(c) ==
    /\ sock[c] = "open" /\ peer[c] = "open"
    /\ peer' = [peer EXCEPT ![c] = "reset"]
    /\ wire' = [wire EXCEPT ![c] = <<>>]
    /\ UNCHANGED <<server, script, sock, pc, buffer, req, start, response,
                   lock, now, out, calls, frames, exit, splits, entered, unread, reads>>

\* A millisecond passes while some generate call is measuring.
Tick ==
    /\ Alive
    /\ now < MaxTime
    /\ \E c \in Conns : pc[c] \in {"waitlock", "engine"}
    /\ now' = now + 1
    /\ UNCHANGED <<server, script, sock, peer, wire, pc, buffer, req, start,
                   response, lock, out, calls, frames, exit, splits, entered, unread, reads>>

----------------------------------------------------------------------------

Handler(c) ==
    \/ Recv(c) \/ RecvEOF(c) \/ RecvReset(c)
    \/ NoFrame(c) \/ SkipBlank(c) \/ ProcessFrame(c)
    \/ Acquire(c) \/ EngineReturn(c) \/ EngineRaise(c)
    \/ SendOK(c) \/ SendFail(c) \/ Close(c)

Next ==
    \/ Bind \/ BindFail \/ AcceptFail \/ Interrupt \/ Tick
    \/ \E c \in Conns :
         \/ Accept(c) \/ Handler(c) \/ ClientClose(c) \/ ClientReset(c)

Spec == Init /\ [][Next]_vars
SpecFraming == InitFraming /\ [][Next]_vars
SpecCodec == InitCodec /\ [][Next]_vars
SpecPair == InitPair /\ [][Next]_vars
SpecStalled == InitStalled /\ [][Next]_vars

\* Every thread that can take a step eventually takes one.
Fairness == \A c \in Conns : WF_vars(Handler(c))
FairSpec == InitFair /\ [][Next]_vars /\ Fairness

\* The lock is granted fairly: a thread that finds it free again and again
\* gets it.
FairGate == \A c \in Conns : SF_vars(Acquire(c))
FairGateSpec == InitFair /\ [][Next]_vars /\ Fairness /\ FairGate

----------------------------------------------------------------------------
(* What the claims speak of. *)

\* The reentrancy counter of an instrumented engine.
Active == Cardinality({c \in Conns : pc[c] = "engine"})

IsSuccess(r) == DOMAIN r = {"response", "inference_ms"}
IsError(r) == DOMAIN r = {"error"}

\* r is a response the client may get for the frame `line`: the one response of
\* a frame that never reaches the engine, else the engine's text for the
\* frame's request or the message of an engine failure.
Answers(line, r) ==
    LET h == HandleFrame(line) IN
    IF h.kind = "respond" THEN r = h.response
    ELSE \/ /\ IsSuccess(r)
            /\ r.response = Engine(h.prompt, h.max_tokens)
            /\ r.inference_ms \in Nat
         \/ \E e \in EngineErrors : r = [error |-> e]

\* The complete lines of a whole stream, cut at every newline at once; what
\* follows the last newline is no line.
RECURSIVE Lines(_)
Lines(stream) ==
    IF ~ Contains(stream, NL) THEN <<>>
    ELSE <<SplitHead(stream)>> \o Lines(SplitRest(stream))

RECURSIVE NonBlank(_)
NonBlank(ls) ==
    IF ls = <<>> THEN <<>>
    ELSE IF \A i \in 1..Len(Head(ls)) : Head(ls)[i] \in Whitespace
         THEN NonBlank(Tail(ls))
         ELSE <<Head(ls)>> \o NonBlank(Tail(ls))

PrefixOf(p, s) == Len(p) <= Len(s) /\ p = SubSeq(s, 1, Len(p))

\* The handler is between the entry of _process_request's generate call and
\* the return of sendall.
InFlight(c) == pc[c] \in {"waitlock", "engine", "send"}

----------------------------------------------------------------------------
\* C1: mutual exclusion. In every reachable state at most one handler is
\* inside the engine (between the acquisition and the release of the lock),
\* whatever the connections and their requests do.
MutualExclusion == Active <= 1

\* One handler runs the engine while another one waits for the lock.
MutexWitness ==
    \E c, d \in Conns : c # d /\ pc[c] = "engine" /\ pc[d] = "waitlock" /\ lock = c

----------------------------------------------------------------------------
\* C2: framing. However the stream of a client is cut into reads, the frames
\* the handler cuts out are the non-blank lines of the whole stream, in order;
\* every response written answers the line of the same rank; and once the
\* whole stream has been read and handled there are as many responses as lines.
FramingCorrect ==
    \A c \in Clients :
      LET want == NonBlank(Lines(script[c])) IN
      /\ PrefixOf(frames[c], want)
      /\ Len(out[c]) <= Len(frames[c])
      /\ \A i \in 1..Len(out[c]) : Answers(want[i], out[c][i])
      /\ (pc[c] = "recv" /\ wire[c] = <<>> /\ peer[c] # "reset") => Len(out[c]) = Len(want)
      /\ exit[c] = "eof" => Len(out[c]) = Len(want)

\* Two well-formed frames, some read ended inside a frame, and both responses
\* are written, in order.
FramingWitness ==
    \E c \in Clients :
      /\ script[c] = Frame(ValidB7) \o Frame(ValidA)
      /\ splits[c]
      /\ pc[c] = "recv" /\ wire[c] = <<>>
      /\ Len(out[c]) = 2
      /\ IsSuccess(out[c][1]) /\ out[c][1].response = Engine("B", 7)
      /\ IsSuccess(out[c][2]) /\ out[c][2].response = Engine("A", DEFAULT_MAX_TOKENS)

----------------------------------------------------------------------------
\* C3: per-connection FIFO. The i-th response written on a connection answers
\* the i-th non-blank frame cut out on it, and the handler starts no frame
\* while the response of the frame before it is unwritten: when it looks at its
\* buffer or reads, every frame cut out so far has its response on the socket.
StrictFifo ==
    \A c \in Conns :
      /\ Len(out[c]) <= Len(frames[c])
      /\ Len(frames[c]) <= Len(out[c]) + 1
      /\ \A i \in 1..Len(out[c]) : Answers(frames[c][i], out[c][i])
      /\ pc[c] \in {"frames", "recv"} => Len(out[c]) = Len(frames[c])
      /\ InFlight(c) => Len(frames[c]) = Len(out[c]) + 1

\* The first request is inside the engine, its response unwritten, while the
\* second frame lies complete in the buffer.
FifoWitness ==
    \E c \in Conns :
      /\ pc[c] = "engine"
      /\ Len(frames[c]) = 1 /\ out[c] = <<>>
      /\ buffer[c] = Frame(ValidA)

----------------------------------------------------------------------------
\* C4: one response per frame. On every connection the responses written are
\* as many as the non-blank frames cut out on it, less the one in progress or
\* the one whose write failed; each is a success (response, inference_ms) or
\* an error (error), never both or neither; and a connection no client opened
\* carries no response.
OneResponsePerFrame ==
    \A c \in Conns :
      /\ Len(out[c]) <= Len(frames[c])
      /\ \A i \in 1..Len(out[c]) :
            /\ IsSuccess(out[c][i]) \/ IsError(out[c][i])
            /\ ~ (IsSuccess(out[c][i]) /\ IsError(out[c][i]))
            /\ Answers(frames[c][i], out[c][i])
      /\ (pc[c] \in {"frames", "recv"} \/ exit[c] \in {"eof", "reset"})
            => Len(out[c]) = Len(frames[c])
      /\ (InFlight(c) \/ exit[c] = "senderr") => Len(out[c]) = Len(frames[c]) - 1
      /\ pc[c] = "killed" => Len(out[c]) \in {Len(frames[c]) - 1, Len(frames[c])}
      /\ sock[c] = "none" => out[c] = <<>>

\* Both connections have their responses: an engine failure and a success on
\* the first, a success on the second.
OneResponseWitness ==
    /\ Len(out[1]) = 2 /\ IsError(out[1][1]) /\ IsSuccess(out[1][2])
    /\ Len(out[2]) = 1 /\ IsSuccess(out[2][1])
    /\ pc[1] = "frames" /\ pc[2] = "frames"

----------------------------------------------------------------------------
(* Kinds of frames, read off their bytes. *)

\* No UTF-8, or no JSON text.
Malformed(f) == ~ Decode(f).ok \/ ~ Loads(Decode(f).text).ok

Parsed(f) == Loads(Decode(f).text).value

\* A JSON object with the key prompt.
IsRequest(f) ==
    /\ ~ Malformed(f)
    /\ Parsed(f).type = "dict"
    /\ "prompt" \in DOMAIN Parsed(f).val

\* The calls of the engine made for the i-th frame of connection c.
CallsFor(c, i) == {k \in DOMAIN calls[c] : calls[c][k].frame = i}

\* The i-th frame of c is answered by one error response and by no engine
\* call: the response is about to be written, or is the i-th one written, or
\* its write failed on a peer that was gone.
ErrorOnly(c, i) ==
    /\ CallsFor(c, i) = {}
    /\ i < Len(frames[c]) => i <= Len(out[c])
    /\ i <= Len(out[c]) => IsError(out[c][i])
    /\ i > Len(out[c]) =>
          \/ pc[c] = "send" /\ IsError(response[c])
          \/ pc[c] = "killed"
          \/ exit[c] = "senderr"

\* A request that follows the i-th frame of c is served as any request: one
\* engine call, and the success response whenever that call returned.
ServedAfter(c, i) ==
    (i + 1 <= Len(out[c]) /\ IsRequest(frames[c][i + 1])) =>
        /\ Cardinality(CallsFor(c, i + 1)) = 1
        /\ \A k \in CallsFor(c, i + 1) :
              IF calls[c][k].outcome = "returned"
              THEN /\ IsSuccess(out[c][i + 1])
                   /\ out[c][i + 1].response
                         = Engine(calls[c][k].prompt, calls[c][k].max_tokens)
              ELSE out[c][i + 1] = [error |-> calls[c][k].outcome]

\* The handler leaves its loop for a reason of the connection only.
LeavesOnlyOnConnectionEvents(c) ==
    /\ exit[c] \in {"none", "eof", "reset", "senderr"}
    /\ pc[c] \in {"finally", "done"} <=> exit[c] # "none" /\ pc[c] # "killed"

----------------------------------------------------------------------------
\* C5: a frame that is no UTF-8 or no JSON gets one error response, no engine
\* call and no lock; the handler stays in its loop; and a request after it on
\* the same connection is served: its success response follows the error
\* response whenever the engine returns.
MalformedIsolated ==
    \A c \in Clients :
      /\ LeavesOnlyOnConnectionEvents(c)
      /\ \A i \in 1..Len(frames[c]) :
            Malformed(frames[c][i]) => ErrorOnly(c, i) /\ ServedAfter(c, i)

\* A frame cut short, then a request: one error response, then one success.
MalformedWitness ==
    \E c \in Clients :
      /\ frames[c] = << <<"{", "pA">>, ValidA >>
      /\ Len(out[c]) = 2
      /\ out[c][1] = [error |-> "Invalid JSON: Expecting property name enclosed in double quotes"]
      /\ IsSuccess(out[c][2])
      /\ Len(calls[c]) = 1
      /\ pc[c] = "recv" /\ sock[c] = "open"

----------------------------------------------------------------------------
\* C6: a JSON object without the key prompt gets the error response
\* "Missing 'prompt' field", no engine call and no lock; the handler stays in
\* its loop and serves a request that follows it.
MissingPrompt(f) ==
    ~ Malformed(f) /\ Parsed(f).type = "dict" /\ "prompt" \notin DOMAIN Parsed(f).val

MissingPromptHandled ==
    \A c \in Clients :
      /\ LeavesOnlyOnConnectionEvents(c)
      /\ \A i \in 1..Len(frames[c]) :
            MissingPrompt(frames[c][i]) =>
              /\ ErrorOnly(c, i)
              /\ i <= Len(out[c]) => out[c][i] = [error |-> "Missing 'prompt' field"]
              /\ (i > Len(out[c]) /\ pc[c] = "send")
                    => response[c] = [error |-> "Missing 'prompt' field"]
              /\ ServedAfter(c, i)

\* {"foo": "bar"}, then a request: the error, then a success.
MissingPromptWitness ==
    \E c \in Clients :
      /\ frames[c] = << <<"{", "x", "}">>, ValidA >>
      /\ Len(out[c]) = 2
      /\ out[c][1] = [error |-> "Missing 'prompt' field"]
      /\ IsSuccess(out[c][2])
      /\ pc[c] = "recv" /\ sock[c] = "open"

----------------------------------------------------------------------------
\* C7: when the engine raises, the lock is free again, the frame gets the
\* one error response with the exception's message, the engine is not called
\* a second time for it, and the handler stays in its loop.
EngineFailureRecovered ==
    /\ lock # 0 => pc[lock] = "engine"
    /\ \A c \in Conns :
         /\ LeavesOnlyOnConnectionEvents(c)
         /\ \A k \in DOMAIN calls[c] :
              LET call == calls[c][k] IN
              call.outcome \in EngineErrors =>
                /\ CallsFor(c, call.frame) = {k}
                /\ lock # c \/ Len(frames[c]) > call.frame
                /\ call.frame <= Len(out[c])
                      => out[c][call.frame] = [error |-> call.outcome]
                /\ call.frame > Len(out[c]) =>
                      \/ pc[c] = "send" /\ response[c] = [error |-> call.outcome]
                      \/ pc[c] = "killed"
                      \/ exit[c] = "senderr"

\* The first request of connection 1 failed in the engine; after it the
\* second request of connection 1 and the request of connection 2 succeeded.
EngineFailureWitness ==
    /\ Len(out[1]) = 2 /\ Len(out[2]) = 1
    /\ calls[1][1].outcome \in EngineErrors
    /\ out[1][1] = [error |-> calls[1][1].outcome]
    /\ IsSuccess(out[1][2]) /\ IsSuccess(out[2][1])
    /\ calls[2][1].outcome = "returned"
    /\ sock[1] = "open" /\ lock = 0

----------------------------------------------------------------------------
\* C8: every engine call carries the prompt of its frame, and the frame's
\* max_tokens when the frame has one, else 50; an unknown member changes
\* nothing; and every answered request had exactly one call.
PromptIn(f) == IF Contains(f, "pA") THEN "A" ELSE "B"
MaxTokensIn(f) ==
    IF Contains(f, "m7") THEN 7 ELSE IF Contains(f, "m0") THEN 0 ELSE 50

Forwarded ==
    \A c \in Clients :
      /\ \A k \in DOMAIN calls[c] :
            LET f == frames[c][calls[c][k].frame] IN
            /\ IsRequest(f)
            /\ calls[c][k].prompt = PromptIn(f)
            /\ calls[c][k].max_tokens = MaxTokensIn(f)
      /\ \A i \in 1..Len(out[c]) :
            IsRequest(frames[c][i]) => Cardinality(CallsFor(c, i)) = 1

\* A request with max_tokens 0 and an unknown member, then one without
\* max_tokens: the engine got 0, then 50.
ForwardedWitness ==
    \E c \in Clients :
      /\ frames[c] = << <<"{", "m0", "x", "pA", "}">>, ValidA >>
      /\ Len(calls[c]) = 2
      /\ calls[c][1].prompt = "A" /\ calls[c][1].max_tokens = 0
      /\ calls[c][2].prompt = "A" /\ calls[c][2].max_tokens = 50

----------------------------------------------------------------------------
\* C9: a frame that is JSON but no object (array, string, number, true,
\* null, with or without the text prompt in it) gets one error response and
\* no engine call; the handler does not die of it and stays in its loop.
NonObject(f) == ~ Malformed(f) /\ Parsed(f).type # "dict"

NonObjectRecovered ==
    \A c \in Clients :
      /\ LeavesOnlyOnConnectionEvents(c)
      /\ \A i \in 1..Len(frames[c]) :
            NonObject(frames[c][i]) => ErrorOnly(c, i) /\ ServedAfter(c, i)

\* ["prompt"], then a request: a TypeError's message, then a success.
NonObjectWitness ==
    \E c \in Clients :
      /\ frames[c] = << <<"[", "e", "]">>, ValidA >>
      /\ Len(out[c]) = 2
      /\ out[c][1] = [error |-> "list indices must be integers or slices, not str"]
      /\ IsSuccess(out[c][2])
      /\ Len(calls[c]) = 1
      /\ pc[c] = "recv" /\ sock[c] = "open"

----------------------------------------------------------------------------
\* C10: once a handler's read has returned zero bytes, the handler closes its
\* socket (while the process lives), and neither that read nor the close
\* changes the main thread, the lock, or anything of another connection.
OthersUntouched(c) ==
    /\ server' = server
    /\ lock' = lock
    /\ \A d \in Conns \ {c} :
         /\ sock'[d] = sock[d] /\ peer'[d] = peer[d] /\ wire'[d] = wire[d]
         /\ pc'[d] = pc[d] /\ buffer'[d] = buffer[d] /\ req'[d] = req[d]
         /\ response'[d] = response[d] /\ out'[d] = out[d]
         /\ calls'[d] = calls[d] /\ frames'[d] = frames[d] /\ exit'[d] = exit[d]
         /\ entered'[d] = entered[d] /\ unread'[d] = unread[d]

DisconnectCleanup ==
    /\ \A c \in Conns : (exit[c] = "eof") ~> (sock[c] = "closed" \/ ~ Alive)
    /\ [][\A c \in Conns :
            \/ exit[c] = "none" /\ exit'[c] = "eof"
            \/ exit[c] = "eof" /\ sock[c] = "open" /\ sock'[c] = "closed"
            => OthersUntouched(c)]_vars

\* Connection 1 was closed after its client left, connection 2 is inside the
\* engine, and the listener still listens.
DisconnectWitness ==
    /\ exit[1] = "eof" /\ sock[1] = "closed" /\ pc[1] = "done"
    /\ pc[2] = "engine" /\ sock[2] = "open"
    /\ server = "listening"

----------------------------------------------------------------------------
\* C11: a reset or a failing write ends the loop of that handler only: the
\* handler is then in its finally clause or past it and does not hold the
\* lock, a handler that has ended has closed its socket, the socket is closed
\* in the end (while the process lives), and neither the failure nor the close
\* changes the main thread, the lock or anything of another connection.
ConnFailed(c) == exit[c] \in {"reset", "senderr"}

ConnectionErrorsContained ==
    /\ [](\A c \in Conns :
            /\ ConnFailed(c) => pc[c] \in {"finally", "done", "killed"} /\ lock # c
            /\ pc[c] = "done" => sock[c] = "closed")
    /\ \A c \in Conns : ConnFailed(c) ~> (sock[c] = "closed" \/ ~ Alive)
    /\ [][\A c \in Conns :
            \/ exit[c] = "none" /\ ConnFailed(c)'
            \/ ConnFailed(c) /\ sock[c] = "open" /\ sock'[c] = "closed"
            => OthersUntouched(c)]_vars

\* The client of connection 1 went away while its request was in the engine:
\* the write failed, the socket is closed; connection 2 got its response and
\* the listener still listens.
ConnectionErrorWitness ==
    /\ exit[1] = "senderr" /\ sock[1] = "closed" /\ pc[1] = "done"
    /\ Len(calls[1]) = 1 /\ calls[1][1].outcome = "returned" /\ out[1] = <<>>
    /\ Len(out[2]) = 1 /\ IsSuccess(out[2][1]) /\ sock[2] = "open"
    /\ lock = 0 /\ server = "listening"

----------------------------------------------------------------------------
\* C12: a failing accept does not end the listener: the main thread is never
\* ended by an exception of server.accept, it leaves its loop on the interrupt
\* only.
ListenerResilient == server # "crashed"

----------------------------------------------------------------------------
\* C13: the inference_ms of a success response is the time from the
\* acquisition of the lock to the return of the engine call, and is not
\* negative: the wait for the lock is not in it.
InferenceMsExcludesQueueing ==
    [][\A c \in Conns :
         (pc[c] = "engine" /\ pc'[c] = "send" /\ IsSuccess(response'[c])) =>
            /\ response'[c].inference_ms >= 0
            /\ response'[c].inference_ms = now - entered[c]]_vars

----------------------------------------------------------------------------
\* C14: a request that waits for the lock or is inside the engine leaves that
\* place only forward (to the engine, to its response), whatever the clients
\* do, as long as the process lives; with a lock granted fairly it gets its
\* response, and the response is written unless the write fails, which it does
\* only when the client is gone.
NoTimeoutNoCancel ==
    /\ \A c \in Conns : (pc[c] = "waitlock") ~> (pc[c] = "send" \/ ~ Alive)
    /\ \A c \in Conns :
          (pc[c] = "send") ~> (pc[c] = "frames" \/ exit[c] = "senderr" \/ ~ Alive)
    /\ [][\A c \in Conns : Alive' =>
            /\ pc[c] = "waitlock" => pc'[c] \in {"waitlock", "engine"}
            /\ pc[c] = "engine" => pc'[c] \in {"engine", "send"}
            /\ pc[c] = "engine" /\ pc'[c] = "send" =>
                  calls'[c][Len(calls[c])].outcome # "running"
            /\ exit[c] = "none" /\ exit'[c] = "senderr" => peer[c] # "open"]_vars

\* Connection 1 was reset while its request waited for the lock behind the
\* request of connection 2; the engine ran for it all the same and returned.
NoCancelWitness ==
    /\ peer[1] = "reset" /\ pc[1] = "send" /\ IsSuccess(response[1])
    /\ calls[1][1].outcome = "returned"
    /\ entered[1] = 0 /\ response[1].inference_ms = 1
    /\ Len(out[2]) = 1 /\ lock = 0

----------------------------------------------------------------------------
\* C15: a line that is empty or all whitespace is dropped from the buffer
\* with no response, no engine call and no change of the socket, and the
\* handler goes on with the rest of the buffer: the frames handled are the
\* other lines of the stream, in order, and once the stream is consumed every
\* one of them has its response.
IsBlank(line) == \A i \in 1..Len(line) : line[i] \in Whitespace

BlankFramesSkipped ==
    /\ [](\A c \in Clients :
            /\ \A i \in 1..Len(frames[c]) : ~ IsBlank(frames[c][i])
            /\ PrefixOf(frames[c], NonBlank(Lines(script[c])))
            /\ (pc[c] = "recv" /\ wire[c] = <<>> /\ peer[c] # "reset")
                  => /\ frames[c] = NonBlank(Lines(script[c]))
                     /\ Len(out[c]) = Len(frames[c]))
    /\ [][\A c \in Clients :
            ( /\ pc[c] = "frames" /\ Contains(buffer[c], NL)
              /\ IsBlank(SplitHead(buffer[c]))
              /\ buffer'[c] # buffer[c] /\ Alive' )
            => /\ buffer'[c] = SplitRest(buffer[c])
               /\ pc'[c] = "frames"
               /\ out'[c] = out[c] /\ calls'[c] = calls[c] /\ frames'[c] = frames[c]
               /\ response'[c] = response[c]
               /\ sock'[c] = sock[c] /\ exit'[c] = exit[c] /\ lock' = lock]_vars

\* A line of one blank, then a request: the one response is the request's.
BlankSkippedWitness ==
    \E c \in Clients :
      /\ script[c] = Frame(<<SP>>) \o Frame(ValidA)
      /\ frames[c] = <<ValidA>>
      /\ Len(out[c]) = 1 /\ IsSuccess(out[c][1]) /\ Len(calls[c]) = 1
      /\ pc[c] = "recv" /\ wire[c] = <<>> /\ sock[c] = "open"

----------------------------------------------------------------------------
\* C16: after the interrupt the handlers of the connections that are open go
\* on: the end of the listener terminates no handler, also not one that waits
\* for the lock or is inside the engine.
ShutdownSparesHandlers ==
    server = "shutdown" => \A c \in Conns : pc[c] # "killed"

----------------------------------------------------------------------------
\* C17: when bind fails the main thread ends there: it never listens, no
\* connection is accepted, no handler runs, nothing is read or written; and a
\* connection is accepted only after bind has succeeded.
NothingServed ==
    \A c \in Conns :
      /\ sock[c] = "none" /\ pc[c] = "idle"
      /\ frames[c] = <<>> /\ calls[c] = <<>> /\ out[c] = <<>>

BindFailureFatal ==
    /\ [](server \in {"start", "bind_failed"} => NothingServed)
    /\ [][server = "bind_failed" => server' = "bind_failed"]_vars
    /\ [][server = "start" => server' \in {"start", "listening", "bind_failed"}]_vars

\* bind has failed.
BindFailureWitness == server = "bind_failed" /\ NothingServed /\ ~ ENABLED Next

----------------------------------------------------------------------------
\* C18: the lock is held by a handler exactly while that handler is inside
\* the engine call: never while it reads, cuts or parses a frame, waits, or
\* writes, and it is free again as soon as the call has returned or raised.
GateScope ==
    /\ lock \in {0} \cup Conns
    /\ \A c \in Conns : lock = c <=> pc[c] = "engine"

\* The call of connection 1 raised and its handler is writing the error; the
\* lock went on to connection 2, which is inside the engine.
GateScopeWitness ==
    /\ pc[1] = "send" /\ IsError(response[1])
    /\ calls[1][1].outcome \in EngineErrors
    /\ lock = 2 /\ pc[2] = "engine"

----------------------------------------------------------------------------
\* C19: a handler that lives and cannot take a step is waiting for bytes in
\* recv, for the lock, or for the engine: nowhere else, and not in the write
\* of a response to a client that does not read.
Running(c) ==
    Alive /\ pc[c] \in {"recv", "frames", "waitlock", "engine", "send", "finally"}

OnlyThreeSuspensionPoints ==
    \A c \in Conns :
      (Running(c) /\ ~ ENABLED Handler(c)) => pc[c] \in {"recv", "waitlock", "engine"}

----------------------------------------------------------------------------
\* C20: the lock is never held with no handler inside the engine; a lock that
\* is held is released; and when handlers wait for a free lock one of them
\* gets it (while the process lives), whatever became of the connections of
\* the handlers that held it before.
Waiting == \E c \in Conns : pc[c] = "waitlock"

GateDeadlockFree ==
    /\ [](lock # 0 => \E c \in Conns : pc[c] = "engine")
    /\ (lock # 0) ~> (lock = 0)
    /\ (Waiting /\ lock = 0) ~> ((\E c \in Conns : pc[c] = "engine") \/ ~ Alive)

\* The client of connection 1 was reset while connection 1 held the lock, its
\* write failed; connection 2, which waited, is inside the engine.
GateDeadlockWitness ==
    /\ exit[1] = "senderr" /\ peer[1] = "reset"
    /\ Len(calls[1]) = 1 /\ calls[1][1].outcome # "running"
    /\ pc[2] = "engine" /\ lock = 2 /\ start[2] < entered[2]

----------------------------------------------------------------------------
\* C21: at most one request of a connection is in flight. A handler whose
\* request waits for the lock or is inside the engine takes nothing from its
\* socket and cuts no frame out of its buffer, a call that runs is the last
\* call of a handler that is inside the engine, and the handlers that wait
\* for the lock or hold it are connections that are open, one request each.
GateUsers == {c \in Conns : pc[c] \in {"waitlock", "engine"}}
OpenConns == {c \in Conns : sock[c] = "open"}
RunningCalls(c) == {k \in DOMAIN calls[c] : calls[c][k].outcome = "running"}

OneInFlightPerConnection ==
    /\ [](/\ GateUsers \subseteq OpenConns
          /\ Cardinality(GateUsers) <= Cardinality(OpenConns)
          /\ \A c \in Conns : Alive =>
                /\ Cardinality(RunningCalls(c)) <= 1
                /\ RunningCalls(c) # {} =>
                      pc[c] = "engine" /\ RunningCalls(c) = {Len(calls[c])}
                /\ pc[c] = "waitlock" => RunningCalls(c) = {}
                /\ pc[c] \in {"waitlock", "engine"} =>
                      Len(frames[c]) = Len(out[c]) + 1)
    /\ [][\A c \in Conns :
            (pc[c] \in {"waitlock", "engine"} /\ Alive') =>
               /\ buffer'[c] = buffer[c]
               /\ frames'[c] = frames[c]
               /\ out'[c] = out[c]
               /\ wire'[c] # wire[c] => peer[c] = "open" /\ peer'[c] = "reset"
               /\ req'[c] # req[c] => pc[c] = "engine" /\ pc'[c] = "send"]_vars

\* The first request of connection 1 is inside the engine while its second
\* frame lies complete in the buffer and its client has closed; the request of
\* connection 2 waits for the lock.
OneInFlightWitness ==
    /\ pc[1] = "engine" /\ lock = 1 /\ RunningCalls(1) = {1}
    /\ buffer[1] = Frame(ValidA) /\ peer[1] = "closed"
    /\ Len(frames[1]) = 1 /\ out[1] = <<>>
    /\ pc[2] = "waitlock" /\ GateUsers = {1, 2}

----------------------------------------------------------------------------
\* C22: the responses written on a connection, inference_ms left out, are
\* determined by the bytes of that connection and the outcomes of its own
\* engine calls: the i-th one is the reply to the i-th non-blank line of its
\* stream, whatever the other connections send and whenever they fail or
\* leave; all of them are written once the stream is consumed; and a step
\* changes the state of one connection only (while the process lives).
WithoutTime(r) == IF IsSuccess(r) THEN [response |-> r.response] ELSE r

\* The outcome of the engine call made for the i-th frame of c.
OutcomeOf(c, i) ==
    IF CallsFor(c, i) = {} THEN "none"
    ELSE calls[c][CHOOSE k \in CallsFor(c, i) : TRUE].outcome

\* The response to a line, given the outcome of its engine call.
Reply(line, outcome) ==
    LET h == HandleFrame(line) IN
    IF h.kind = "respond" THEN h.response
    ELSE IF outcome = "returned" THEN [response |-> Engine(h.prompt, h.max_tokens)]
    ELSE [error |-> outcome]

ConnState(c) ==
    <<sock[c], peer[c], wire[c], pc[c], buffer[c], req[c], start[c], response[c],
      out[c], calls[c], frames[c], exit[c], entered[c], unread[c]>>

NonInterference ==
    /\ [](\A c \in Clients :
            LET want == NonBlank(Lines(script[c])) IN
            /\ Len(out[c]) <= Len(want)
            /\ \A i \in 1..Len(out[c]) :
                  /\ OutcomeOf(c, i) \in {"none", "returned"} \cup EngineErrors
                  /\ OutcomeOf(c, i) = "none" <=> HandleFrame(want[i]).kind = "respond"
                  /\ WithoutTime(out[c][i]) = Reply(want[i], OutcomeOf(c, i))
            /\ (pc[c] = "recv" /\ wire[c] = <<>> /\ peer[c] # "reset")
                  => Len(out[c]) = Len(want))
    /\ [][Alive' => \A c, d \in Conns :
            (c # d /\ ConnState(c)' # ConnState(c)) => ConnState(d)' = ConnState(d)]_vars

\* Connection 2 sent a request whose engine call raised, then was reset and
\* closed; connection 1 has the replies to its two requests, in order.
NonInterferenceWitness ==
    /\ script[2] = ShortStream
    /\ Len(calls[2]) = 1 /\ calls[2][1].outcome \in EngineErrors
    /\ peer[2] = "reset" /\ exit[2] = "senderr" /\ sock[2] = "closed"
    /\ Len(out[1]) = 2
    /\ WithoutTime(out[1][1]) = [response |-> Engine("B", 7)]
    /\ WithoutTime(out[1][2]) = [response |-> Engine("A", DEFAULT_MAX_TOKENS)]
    /\ pc[1] = "recv" /\ sock[1] = "open"

----------------------------------------------------------------------------
\* C23: the bytes after the last newline received are never a frame. The
\* frames cut out are complete lines of the stream; a frame is cut out only
\* when its newline is in the buffer; when the handler waits in recv nothing
\* in its buffer ends in a newline, and once the stream is consumed the buffer
\* holds the unterminated rest and every complete line has been handled; and a
\* handler that has left its loop (end of stream, reset, failed write) cuts,
\* calls and writes nothing more, so the rest it holds is dropped.
LastNL(s) ==
    IF Contains(s, NL)
    THEN CHOOSE i \in DOMAIN s : s[i] = NL /\ \A j \in (i + 1)..Len(s) : s[j] # NL
    ELSE 0

\* What follows the last newline of a stream.
Unterminated(s) == SubSeq(s, LastNL(s) + 1, Len(s))

TrailingFrameNeverProcessed ==
    /\ [](\A c \in Clients :
            LET want == NonBlank(Lines(script[c])) IN
            /\ PrefixOf(frames[c], want)
            /\ Len(calls[c]) <= Len(frames[c]) /\ Len(out[c]) <= Len(frames[c])
            /\ pc[c] = "recv" => ~ Contains(buffer[c], NL)
            /\ (pc[c] = "recv" /\ wire[c] = <<>> /\ peer[c] # "reset")
                  => /\ buffer[c] = Unterminated(script[c])
                     /\ frames[c] = want /\ Len(out[c]) = Len(want)
            /\ (Alive /\ exit[c] = "eof")
                  => /\ buffer[c] = Unterminated(script[c])
                     /\ frames[c] = want /\ Len(out[c]) = Len(want))
    /\ [][\A c \in Clients :
            /\ frames'[c] # frames[c] =>
                  /\ Contains(buffer[c], NL)
                  /\ frames'[c] = Append(frames[c], SplitHead(buffer[c]))
                  /\ buffer'[c] = SplitRest(buffer[c])
            /\ pc[c] \in {"finally", "done", "killed"} =>
                  /\ frames'[c] = frames[c] /\ calls'[c] = calls[c] /\ out'[c] = out[c]
                  /\ pc'[c] \in {"finally", "done", "killed"}]_vars

\* A request and the beginning of a second one, then the client closed: one
\* call, one response, and the handler ended with the beginning in its buffer.
TrailingFrameWitness ==
    \E c \in Clients :
      /\ script[c] = Frame(ValidA) \o <<"{", "pB">>
      /\ exit[c] = "eof" /\ pc[c] = "done" /\ sock[c] = "closed" /\ Alive
      /\ buffer[c] = <<"{", "pB">>
      /\ frames[c] = <<ValidA>>
      /\ Len(calls[c]) = 1 /\ Len(out[c]) = 1 /\ IsSuccess(out[c][1])

====
